---- MODULE Spec2Model ----
(***************************************************************************)
(* Model of the Google Fit -> Garmin Connect weight uploader               *)
(* (garmin_weight_uploader.py): the measurement key, in-batch              *)
(* deduplication, the filter against the persisted state, the bounded      *)
(* state file (load / prune / save) and the upload loop driven by main(),  *)
(* and of the body-composition uploader (garmin_weight_uploader2.py): its  *)
(* CSV loader, its duplicate key and its main() over several files.        *)
(*                                                                         *)
(* Encoding of the data                                                    *)
(*   date      a day number >= 1                                           *)
(*   time      seconds since midnight                                      *)
(*   weight    an integer number of 1/10000 kg (70.5 kg = 705000)          *)
(*   key       the string "<date>T<HH:MM:SS>|<weight:.3f>" is the triple   *)
(*             <<date, time, weight in 1/1000 kg>>.  A key string whose    *)
(*             part before "|" is no ISO date-time has date 0, its other   *)
(*             two fields tell such strings apart; the empty string is     *)
(*             <<0, 0, 0>>.                                                *)
(***************************************************************************)
EXTENDS Integers, Sequences, FiniteSets, TLC

(***************************************************************************)
(* Bounds of the model.                                                    *)
(***************************************************************************)
MaxRows == 2        \* rows of the CSV file handed to main()
MaxBatch == 3       \* records of a batch handed to a pure function
MaxKeys == 3        \* length of a key collection handed to prune_state_keys
MaxLimit == 2       \* largest limit handed to prune_state_keys
MaxRuns == 2        \* consecutive runs of main() over the same file
StateCap == 3       \* value the model gives STATE_MAX_ENTRIES (512 in the source)

STATE_MAX_ENTRIES == StateCap

(***************************************************************************)
(* Generic helpers.                                                        *)
(***************************************************************************)
Range(s) == {s[i] : i \in 1..Len(s)}

SeqsUpTo(S, n) == UNION {[1..m -> S] : m \in 0..n}

Min2(a, b) == IF a < b THEN a ELSE b

Max2(a, b) == IF a > b THEN a ELSE b

\* Python's seq[start:] for any integer start.
PySliceFrom(s, start) ==
    LET n == Len(s)
        b == IF start < 0 THEN Max2(n + start, 0) ELSE Min2(start, n)
    IN  SubSeq(s, b + 1, n)

\* pandas DataFrame.tail(n) for n >= 0: the last n rows (none for n = 0).
DfTail(s, n) == SubSeq(s, Len(s) - Min2(n, Len(s)) + 1, Len(s))

(***************************************************************************)
(* measurement_key                                                         *)
(***************************************************************************)
\* "%.3f": the weight rounded to three decimals (ties to even).
Format3f(w) ==
    LET q == w \div 10
        r == w % 10
    IN  IF r < 5 THEN q
        ELSE IF r > 5 THEN q + 1
        ELSE IF q % 2 = 0 THEN q ELSE q + 1

measurement_key(date_value, time_value, weight) ==
    <<date_value, time_value, Format3f(weight)>>

KeyOf(record) == measurement_key(record.date, record.time, record.weight_kg)

EmptyKey == <<0, 0, 0>>

(***************************************************************************)
(* prune_state_keys                                                        *)
(***************************************************************************)
\* datetime.min, the sort key of a key whose instant does not parse.
DatetimeMin == <<0, 0>>

sort_key(item) == IF item[1] = 0 THEN DatetimeMin ELSE <<item[1], item[2]>>

DtLeq(a, b) == a[1] < b[1] \/ (a[1] = b[1] /\ a[2] <= b[2])

\* sorted(unique_keys, key=sort_key): the sort is stable over the iteration
\* order of a set of strings, which differs from process to process, so keys
\* with equal sort keys come out in any order.
RECURSIVE SortedOrders(_)
SortedOrders(S) ==
    IF S = {} THEN {<<>>}
    ELSE UNION {{<<m>> \o rest : rest \in SortedOrders(S \ {m})} :
                m \in {k \in S : \A j \in S : DtLeq(sort_key(k), sort_key(j))}}

\* The lists prune_state_keys(keys, limit) can return; keys is the set of the
\* elements of the iterable handed in (line 209 reads it into a set).
prune_state_keys(keys, limit) ==
    LET unique_keys == {k \in keys : k # EmptyKey}
    IN  {IF Len(ordered) > limit THEN PySliceFrom(ordered, -limit) ELSE ordered :
         ordered \in SortedOrders(unique_keys)}

(***************************************************************************)
(* load_weight_rows: the rows of the CSV file, already parsed cell by cell. *)
(* A raw row is [date, time, weight]; date 0 is a date that did not parse,  *)
(* weight 0 a weight cell that is empty, unparseable or zero, and a         *)
(* negative weight a negative reading.                                      *)
(***************************************************************************)
Round3(w) == Format3f(w) * 10       \* round(float(weight), 3)

RowLeq(a, b) == a.date < b.date \/ (a.date = b.date /\ a.time <= b.time)

\* df.sort_values(["date", "time"]): a stable sort.
RECURSIVE InsertSorted(_, _)
InsertSorted(s, r) ==
    IF s = <<>> THEN <<r>>
    ELSE IF RowLeq(s[Len(s)], r) THEN Append(s, r)
    ELSE Append(InsertSorted(SubSeq(s, 1, Len(s) - 1), r), s[Len(s)])

RECURSIVE SortRows(_)
SortRows(s) ==
    IF s = <<>> THEN <<>>
    ELSE InsertSorted(SortRows(SubSeq(s, 1, Len(s) - 1)), s[Len(s)])

RECURSIVE ValidRows(_)
ValidRows(raw) ==
    IF raw = <<>> THEN <<>>
    ELSE LET row == raw[1]
             rest == ValidRows(SubSeq(raw, 2, Len(raw)))
         IN  IF row.date = 0 THEN rest
             ELSE IF row.weight <= 0 THEN rest
             ELSE <<[date |-> row.date, time |-> row.time,
                     weight_kg |-> Round3(row.weight)]>> \o rest

\* A CSV file is [cols, rows]: the columns its header names, among "date",
\* "datetime" and "weight", and its raw rows.
CsvFile(cols, rows) == [cols |-> cols, rows |-> rows]

\* [raised |-> a ValueError of line 242, 247 or 277, df |-> the sorted frame]
load_weight_rows(f) ==
    LET rows == ValidRows(f.rows)
    IN  IF "date" \notin f.cols /\ "datetime" \notin f.cols
        THEN [raised |-> TRUE, df |-> <<>>]
        ELSE IF "weight" \notin f.cols THEN [raised |-> TRUE, df |-> <<>>]
        ELSE IF rows = <<>> THEN [raised |-> TRUE, df |-> <<>>]
        ELSE [raised |-> FALSE, df |-> SortRows(rows)]

(***************************************************************************)
(* deduplicate_measurements                                                *)
(***************************************************************************)
RECURSIVE DedupFrom(_, _)
DedupFrom(df, seen) ==
    IF df = <<>> THEN <<>>
    ELSE LET key == KeyOf(df[1])
             rest == SubSeq(df, 2, Len(df))
         IN  IF key \in seen THEN DedupFrom(rest, seen)
             ELSE <<df[1]>> \o DedupFrom(rest, seen \cup {key})

RECURSIVE DedupKeepLast(_, _)
DedupKeepLast(df, seen) ==
    IF df = <<>> THEN <<>>
    ELSE LET key == KeyOf(df[Len(df)])
             rest == SubSeq(df, 1, Len(df) - 1)
         IN  IF key \in seen THEN DedupKeepLast(rest, seen)
             ELSE DedupKeepLast(rest, seen \cup {key}) \o <<df[Len(df)]>>

deduplicate_measurementsKeepLast(df) == DedupKeepLast(df, {})

deduplicate_measurements(df) == DedupFrom(df, {})

(***************************************************************************)
(* filter_new_entries                                                      *)
(***************************************************************************)
RECURSIVE FilterFrom(_, _)
FilterFrom(df, uploaded_keys) ==
    IF df = <<>> THEN [records |-> <<>>, skipped |-> 0]
    ELSE LET r == FilterFrom(SubSeq(df, 2, Len(df)), uploaded_keys)
         IN  IF KeyOf(df[1]) \in uploaded_keys
             THEN [records |-> r.records, skipped |-> r.skipped + 1]
             ELSE [records |-> <<df[1]>> \o r.records, skipped |-> r.skipped]

filter_new_entriesFirstOnly(df, uploaded_keys) ==
    IF uploaded_keys = {} THEN [records |-> df, skipped |-> 0]
    ELSE IF df # <<>> /\ KeyOf(df[1]) \in uploaded_keys
         THEN [records |-> SubSeq(df, 2, Len(df)), skipped |-> 1]
         ELSE [records |-> df, skipped |-> 0]

filter_new_entries(df, uploaded_keys) ==
    IF uploaded_keys = {} THEN [records |-> df, skipped |-> 0]
    ELSE FilterFrom(df, uploaded_keys)

(***************************************************************************)
(* The state file and load_uploaded_keys.                                  *)
(* A file is [kind, keys]:                                                 *)
(*   missing       no file at the path                                     *)
(*   not_utf8      bytes that do not decode as UTF-8                       *)
(*   notjson       text that is no JSON document (empty and truncated      *)
(*                 files included)                                         *)
(*   dict_list     {"uploaded_keys": [keys...]}                            *)
(*   dict_legacy   {"keys": [keys...]}                                     *)
(*   dict_string   {"uploaded_keys": "<text>"}; keys holds its characters  *)
(*   dict_number   {"uploaded_keys": <non-zero number or true>}            *)
(*   dict_other    a dict with neither entry, or with a falsy one          *)
(*   list          a top-level list [keys...]                              *)
(*   scalar        a top-level number, string, boolean or null             *)
(***************************************************************************)
FileKinds == {"missing", "not_utf8", "notjson", "dict_list", "dict_legacy", "dict_string",
              "dict_number", "dict_other", "list", "scalar"}

MissingFile == [kind |-> "missing", keys |-> <<>>]

EmptiedFile == [kind |-> "notjson", keys |-> <<>>]

\* [raised |-> an exception left the function, keys |-> the returned set].
\* read_text raises UnicodeDecodeError, which is no JSONDecodeError, and
\* line 348 raises TypeError when it iterates over a number.
load_uploaded_keys(f) ==
    CASE f.kind = "missing" -> [raised |-> FALSE, keys |-> {}]
      [] f.kind = "notjson" -> [raised |-> FALSE, keys |-> {}]
      [] f.kind \in {"dict_list", "dict_legacy", "dict_string", "list"} ->
             [raised |-> FALSE, keys |-> Range(f.keys)]
      [] f.kind \in {"dict_number", "not_utf8"} -> [raised |-> TRUE, keys |-> {}]
      [] OTHER -> [raised |-> FALSE, keys |-> {}]

save_uploaded_keysOneLess(keys) ==
    {[kind |-> "dict_list", keys |-> p] :
        p \in prune_state_keys(keys, STATE_MAX_ENTRIES - 1)}

\* The files a save_uploaded_keys(path, keys) that runs to its end can leave:
\* {"version": 1, "saved_at": ..., "uploaded_keys": prune_state_keys(keys)}.
save_uploaded_keys(keys) ==
    {[kind |-> "dict_list", keys |-> p] :
        p \in prune_state_keys(keys, STATE_MAX_ENTRIES)}

(***************************************************************************)
(* State.                                                                  *)
(***************************************************************************)
VARIABLES
    call,           \* the pure function last applied and its arguments
    ret,            \* what it returned
    pc,             \* position of main()
    runNo,          \* number of the current run of main()
    csv,            \* the CSV file handed to main(), the same for every run
    args,           \* command line of the current run
    file,           \* the state file on disk
    file0,          \* the state file as the current run found it
    uploaded_keys,  \* main(): the keys loaded from the state file
    selected,       \* main(): the upload candidates
    trimmed,        \* main(): --max-uploads cut the candidates
    idx,            \* upload_measurements(): index of the next record
    successes,      \* upload_measurements(): counter
    failures,       \* upload_measurements(): counter
    keys,           \* upload_measurements(): the list "uploaded"
    status,         \* per candidate: "Pending", "Succeeded" or "Failed"
    calls,          \* the api.add_weigh_in calls of this run, in order
    logins,         \* the ensure_login calls of this run
    payload,        \* save_uploaded_keys(): the key list being written
    rc,             \* exit code of main(), -1 while there is none
    killedAt,       \* where the run stood when it was terminated, "" if it was not
    prev,           \* summary of the previous run
    targets,        \* garmin_weight_uploader2 main(): the CSV files the patterns matched
    path,           \* garmin_weight_uploader2 main(): index of the next file to load
    all_rows,       \* garmin_weight_uploader2 main(): the rows loaded so far
    seen            \* upload_rows(): the duplicate keys met so far

vars == <<call, ret, pc, runNo, csv, args, file, file0, uploaded_keys, selected,
          trimmed, idx, successes, failures, keys, status, calls, logins, payload,
          rc, killedAt, prev,
                   targets, path, all_rows, seen>>

(***************************************************************************)
(* Inputs.                                                                 *)
(***************************************************************************)
Rec(d, t, w) == [date |-> d, time |-> t, weight_kg |-> w]

Raw(d, t, w) == [date |-> d, time |-> t, weight |-> w]

\* Records handed to deduplicate_measurements and filter_new_entries: two
\* weights with the same "%.3f" text, two instants of the same minute, two
\* weights at the same instant, two days.
PureRecords == {Rec(1, 0, 705000), Rec(1, 0, 705004), Rec(1, 30, 705000),
                Rec(1, 0, 702000), Rec(2, 0, 705000), Rec(2, 0, 702000)}

JunkKey == <<0, 1, 0>>

JunkKey2 == <<0, 2, 0>>

PureStateKeys == {<<1, 0, 70500>>, <<1, 30, 70500>>, <<2, 0, 70200>>, JunkKey}

\* Keys handed to prune_state_keys: three instants, one of them with two
\* weights, two strings with no instant, and the empty string.
PruneKeys == {<<1, 0, 70500>>, <<2, 0, 70500>>, <<2, 0, 70200>>, <<3, 0, 70000>>,
              JunkKey, JunkKey2, EmptyKey}

\* Rows of the CSV file: valid rows of two days, two of them in the same
\* minute, a zero weight and an unparseable date.
CsvRows == {Raw(2, 0, 702000), Raw(1, 30, 705004), Raw(1, 0, 705000), Raw(1, 0, 0),
            Raw(0, 0, 705000)}

\* Headers that lack a column the loaders need.
BrokenHeaders == {{"weight"}, {"date"}}

\* Keys a state file can hold before the first run: one of the CSV file's own
\* keys and later measurements.
OldKeySeq == <<<<1, 30, 70500>>, <<3, 0, 70000>>, <<4, 0, 70000>>>>

RECURSIVE SubSeqOf(_, _)
SubSeqOf(s, S) ==
    IF s = <<>> THEN <<>>
    ELSE IF s[1] \in S THEN <<s[1]>> \o SubSeqOf(SubSeq(s, 2, Len(s)), S)
    ELSE SubSeqOf(SubSeq(s, 2, Len(s)), S)

InitialFiles ==
    {[kind |-> k, keys |-> <<>>] : k \in {"missing", "notjson", "dict_number"}}
    \cup {[kind |-> "dict_list", keys |-> SubSeqOf(OldKeySeq, S)] :
            S \in {T \in SUBSET Range(OldKeySeq) : Cardinality(T) <= StateCap}}
    \cup {[kind |-> "list", keys |-> <<JunkKey, EmptyKey>>]}

PureFiles ==
    {[kind |-> k, keys |-> <<>>] :
        k \in {"missing", "not_utf8", "notjson", "dict_number", "dict_other", "scalar"}}
    \cup {[kind |-> k, keys |-> ks] :
            k \in {"dict_list", "dict_legacy", "list"},
            ks \in SeqsUpTo(PureStateKeys \cup {EmptyKey}, MaxKeys) \ {<<>>}}
    \cup {[kind |-> "dict_string", keys |-> <<JunkKey, JunkKey2>>]}

Args == [dry_run : BOOLEAN, use_state : BOOLEAN, has_max : BOOLEAN, max_uploads : {1}]

\* What api.add_weigh_in does: it returns, or raises an error of one of two kinds.
Outcomes == {"Returned", "TransientFailure", "PermanentFailure"}

\* saved: the run wrote the state file; complete: it uploaded every record
\* that deduplication and the state filter left, none failing; kept: the save
\* evicted no key.
NoPrev == [saved |-> FALSE, complete |-> FALSE, kept |-> FALSE]

NoCall == [fn |-> "none", df |-> <<>>, keys |-> <<>>, state |-> {}, limit |-> 0,
           file |-> MissingFile]

(***************************************************************************)
(* The pure functions: Init draws the arguments, one action per function   *)
(* applies it.                                                             *)
(***************************************************************************)
restVars == <<runNo, csv, args, file, file0, uploaded_keys, selected, trimmed,
              idx, successes, failures, keys, status, calls, logins, payload, rc,
              killedAt, prev,
                   targets, path, all_rows, seen>>

MainIdle ==
    /\ runNo = 0
    /\ csv = CsvFile({}, <<>>)
    /\ args = [dry_run |-> FALSE, use_state |-> FALSE, has_max |-> FALSE, max_uploads |-> 1]
    /\ file = MissingFile
    /\ file0 = MissingFile
    /\ uploaded_keys = {}
    /\ selected = <<>>
    /\ trimmed = FALSE
    /\ idx = 1
    /\ successes = 0
    /\ failures = 0
    /\ keys = <<>>
    /\ status = <<>>
    /\ calls = <<>>
    /\ logins = 0
    /\ payload = <<>>
    /\ rc = -1
    /\ killedAt = ""
    /\ prev = NoPrev
    /\ targets = <<>>
    /\ path = 1
    /\ all_rows = <<>>
    /\ seen = {}

PureInit ==
    /\ \/ \E df \in SeqsUpTo(PureRecords, MaxBatch) :
            call = [NoCall EXCEPT !.fn = "dedup", !.df = df]
       \/ \E S \in SUBSET PureStateKeys, df \in SeqsUpTo(PureRecords, MaxBatch) :
            call = [NoCall EXCEPT !.fn = "filter", !.df = df, !.state = S]
       \/ \E limit \in 0..MaxLimit, ks \in SeqsUpTo(PruneKeys, MaxKeys) :
            call = [NoCall EXCEPT !.fn = "prune", !.keys = ks, !.limit = limit]
       \/ \E f \in PureFiles :
            call = [NoCall EXCEPT !.fn = "load", !.file = f]
       \/ \E S \in SUBSET PruneKeys :
            /\ S # {}
            /\ Cardinality(S) <= STATE_MAX_ENTRIES + 1
            /\ call = [NoCall EXCEPT !.fn = "roundtrip", !.state = S]
    /\ ret = <<>>
    /\ pc = "ready"
    /\ MainIdle

ApplyDedup ==
    /\ pc = "ready"
    /\ call.fn = "dedup"
    /\ ret' = deduplicate_measurements(call.df)
    /\ pc' = "returned"
    /\ UNCHANGED <<call, restVars>>

ApplyFilter ==
    /\ pc = "ready"
    /\ call.fn = "filter"
    /\ ret' = filter_new_entries(call.df, call.state)
    /\ pc' = "returned"
    /\ UNCHANGED <<call, restVars>>

ApplyPrune ==
    /\ pc = "ready"
    /\ call.fn = "prune"
    /\ ret' \in prune_state_keys(Range(call.keys), call.limit)
    /\ pc' = "returned"
    /\ UNCHANGED <<call, restVars>>

ApplyLoad ==
    /\ pc = "ready"
    /\ call.fn = "load"
    /\ ret' = load_uploaded_keys(call.file)
    /\ pc' = "returned"
    /\ UNCHANGED <<call, restVars>>

\* save_uploaded_keys(path, keys) followed by load_uploaded_keys(path).
ApplyRoundTrip ==
    /\ pc = "ready"
    /\ call.fn = "roundtrip"
    /\ \E f \in save_uploaded_keys(call.state) : ret' = load_uploaded_keys(f)
    /\ pc' = "returned"
    /\ UNCHANGED <<call, restVars>>

PureNext == ApplyDedup \/ ApplyFilter \/ ApplyPrune \/ ApplyLoad \/ ApplyRoundTrip

SpecPure == PureInit /\ [][PureNext]_vars

(***************************************************************************)
(* main(): one run after the other over the same CSV file and state file.  *)
(* A run is split where the outside world can see or interrupt it: before  *)
(* the login, before each api.add_weigh_in call, and inside write_text     *)
(* (open-and-truncate, then write).                                        *)
(***************************************************************************)
Running == {"start", "login", "upload", "save", "write"}

Ended == {"done", "aborted", "killed"}

FreshRun ==
    /\ uploaded_keys' = {}
    /\ selected' = <<>>
    /\ trimmed' = FALSE
    /\ idx' = 1
    /\ successes' = 0
    /\ failures' = 0
    /\ keys' = <<>>
    /\ status' = <<>>
    /\ calls' = <<>>
    /\ logins' = 0
    /\ payload' = <<>>
    /\ rc' = -1
    /\ killedAt' = ""

\* main() up to line 558: the credentials are there, the CSV file is found.
Init ==
    /\ call = NoCall
    /\ ret = <<>>
    /\ pc = "start"
    /\ runNo = 1
    /\ file \in InitialFiles
    /\ file0 = file
    /\ args \in Args
    /\ \/ \E rows \in SeqsUpTo(CsvRows, MaxRows) : csv = CsvFile({"date", "weight"}, rows)
       \/ \E cols \in BrokenHeaders \cup {{"datetime", "weight"}} :
            csv = CsvFile(cols, <<Raw(1, 0, 705000)>>)
    /\ uploaded_keys = {}
    /\ selected = <<>>
    /\ trimmed = FALSE
    /\ idx = 1
    /\ successes = 0
    /\ failures = 0
    /\ keys = <<>>
    /\ status = <<>>
    /\ calls = <<>>
    /\ logins = 0
    /\ payload = <<>>
    /\ rc = -1
    /\ killedAt = ""
    /\ prev = NoPrev
    /\ targets = <<>>
    /\ path = 1
    /\ all_rows = <<>>
    /\ seen = {}

\* main(), lines 559-583: read the CSV, deduplicate, load the state, filter,
\* apply --max-uploads, and return 0 when nothing is left.
MainLoad ==
    /\ pc = "start"
    /\ LET loaded == load_weight_rows(csv)
           deduped == deduplicate_measurements(loaded.df)
           state == IF args.use_state THEN load_uploaded_keys(file)
                    ELSE [raised |-> FALSE, keys |-> {}]
           filtered == IF args.use_state
                       THEN filter_new_entries(deduped, state.keys).records
                       ELSE deduped
           cut == args.has_max /\ Len(filtered) > args.max_uploads
           chosen == IF cut THEN DfTail(filtered, args.max_uploads) ELSE filtered
       IN  IF loaded.raised \/ state.raised
           THEN /\ pc' = "aborted"
                /\ UNCHANGED <<uploaded_keys, selected, trimmed, status, rc>>
           ELSE /\ uploaded_keys' = state.keys
                /\ selected' = chosen
                /\ trimmed' = cut
                /\ status' = [i \in 1..Len(chosen) |-> "Pending"]
                /\ IF chosen = <<>>
                   THEN pc' = "done" /\ rc' = 0
                   ELSE pc' = "login" /\ rc' = rc
    /\ UNCHANGED <<call, ret, runNo, csv, args, file, file0, idx, successes, failures,
                   keys, calls, logins, payload, killedAt, prev,
                   targets, path, all_rows, seen>>

\* main(), line 592: ensure_login() logs in to Garmin Connect; it can raise.
EnsureLogin ==
    /\ pc = "login"
    /\ logins' = logins + 1
    /\ \E ok \in BOOLEAN : pc' = IF ok THEN "upload" ELSE "aborted"
    /\ UNCHANGED <<call, ret, runNo, csv, args, file, file0, uploaded_keys, selected,
                   trimmed, idx, successes, failures, keys, status, calls, payload,
                   rc, killedAt, prev,
                   targets, path, all_rows, seen>>

\* upload_measurements(), one iteration of the loop of lines 407-437.  The
\* call returns or raises; the response it returns is one that lines 426-431
\* can print.
UploadStepAbortOnFailure ==
    /\ pc = "upload"
    /\ idx <= Len(selected)
    /\ LET record == selected[idx]
           key == measurement_key(record.date, record.time, record.weight_kg)
       IN  IF args.dry_run
           THEN /\ successes' = successes + 1
                /\ keys' = Append(keys, key)
                /\ status' = [status EXCEPT ![idx] = "Succeeded"]
                /\ idx' = idx + 1
                /\ UNCHANGED <<failures, calls>>
           ELSE \E outcome \in Outcomes :
                /\ calls' = Append(calls, [i |-> idx, record |-> record,
                                           outcome |-> outcome])
                /\ IF outcome = "Returned"
                   THEN /\ keys' = Append(keys, key)
                        /\ successes' = successes + 1
                        /\ status' = [status EXCEPT ![idx] = "Succeeded"]
                        /\ idx' = idx + 1
                        /\ UNCHANGED failures
                   ELSE /\ failures' = failures + 1
                        /\ status' = [status EXCEPT ![idx] = "Failed"]
                        /\ idx' = Len(selected) + 1
                        /\ UNCHANGED <<keys, successes>>
    /\ UNCHANGED <<call, ret, pc, runNo, csv, args, file, file0, uploaded_keys,
                   selected, trimmed, logins, payload, rc, killedAt, prev,
                   targets, path, all_rows, seen>>

UploadStepKeepsFailedKey ==
    /\ pc = "upload"
    /\ idx <= Len(selected)
    /\ LET record == selected[idx]
           key == measurement_key(record.date, record.time, record.weight_kg)
       IN  IF args.dry_run
           THEN /\ successes' = successes + 1
                /\ keys' = Append(keys, key)
                /\ status' = [status EXCEPT ![idx] = "Succeeded"]
                /\ UNCHANGED <<failures, calls>>
           ELSE \E outcome \in Outcomes :
                /\ calls' = Append(calls, [i |-> idx, record |-> record,
                                           outcome |-> outcome])
                /\ IF outcome = "Returned"
                   THEN /\ keys' = Append(keys, key)
                        /\ successes' = successes + 1
                        /\ status' = [status EXCEPT ![idx] = "Succeeded"]
                        /\ UNCHANGED failures
                   ELSE /\ failures' = failures + 1
                        /\ status' = [status EXCEPT ![idx] = "Failed"]
                        /\ keys' = Append(keys, key)
                        /\ UNCHANGED successes
    /\ idx' = idx + 1
    /\ UNCHANGED <<call, ret, pc, runNo, csv, args, file, file0, uploaded_keys,
                   selected, trimmed, logins, payload, rc, killedAt, prev,
                   targets, path, all_rows, seen>>

UploadStep ==
    /\ pc = "upload"
    /\ idx <= Len(selected)
    /\ LET record == selected[idx]
           key == measurement_key(record.date, record.time, record.weight_kg)
       IN  IF args.dry_run
           THEN /\ successes' = successes + 1
                /\ keys' = Append(keys, key)
                /\ status' = [status EXCEPT ![idx] = "Succeeded"]
                /\ UNCHANGED <<failures, calls>>
           ELSE \E outcome \in Outcomes :
                /\ calls' = Append(calls, [i |-> idx, record |-> record,
                                           outcome |-> outcome])
                /\ IF outcome = "Returned"
                   THEN /\ keys' = Append(keys, key)
                        /\ successes' = successes + 1
                        /\ status' = [status EXCEPT ![idx] = "Succeeded"]
                        /\ UNCHANGED failures
                   ELSE /\ failures' = failures + 1
                        /\ status' = [status EXCEPT ![idx] = "Failed"]
                        /\ UNCHANGED <<keys, successes>>
    /\ idx' = idx + 1
    /\ UNCHANGED <<call, ret, pc, runNo, csv, args, file, file0, uploaded_keys,
                   selected, trimmed, logins, payload, rc, killedAt, prev,
                   targets, path, all_rows, seen>>

\* main(), lines 601-606: the exit code.
ExitCode == IF failures > 0 THEN 1 ELSE 0

SaveDueAlways == args.use_state /\ keys # <<>>

\* main(), line 596: the condition of the save.
SaveDue == ~args.dry_run /\ args.use_state /\ keys # <<>>

AfterUploadDropsLoadedKeys ==
    /\ pc = "upload"
    /\ idx > Len(selected)
    /\ IF SaveDue
       THEN /\ uploaded_keys' = Range(keys)
            /\ pc' = "save"
            /\ rc' = rc
       ELSE /\ pc' = "done"
            /\ rc' = ExitCode
            /\ UNCHANGED uploaded_keys
    /\ UNCHANGED <<call, ret, runNo, csv, args, file, file0, selected, trimmed, idx,
                   successes, failures, keys, status, calls, logins, payload, killedAt, prev,
                   targets, path, all_rows, seen>>

\* main(), lines 594-606 up to the save: the uploaded keys join the loaded ones.
AfterUpload ==
    /\ pc = "upload"
    /\ idx > Len(selected)
    /\ IF SaveDue
       THEN /\ uploaded_keys' = uploaded_keys \cup Range(keys)
            /\ pc' = "save"
            /\ rc' = rc
       ELSE /\ pc' = "done"
            /\ rc' = ExitCode
            /\ UNCHANGED uploaded_keys
    /\ UNCHANGED <<call, ret, runNo, csv, args, file, file0, selected, trimmed, idx,
                   successes, failures, keys, status, calls, logins, payload, killedAt, prev,
                   targets, path, all_rows, seen>>

\* save_uploaded_keys(), lines 354-360 up to the open() inside write_text:
\* the payload is built, then the file is opened for writing and truncated.
SaveOpen ==
    /\ pc = "save"
    /\ payload' \in prune_state_keys(uploaded_keys, STATE_MAX_ENTRIES)
    /\ file' = EmptiedFile
    /\ pc' = "write"
    /\ UNCHANGED <<call, ret, runNo, csv, args, file0, uploaded_keys, selected, trimmed,
                   idx, successes, failures, keys, status, calls, logins, rc, killedAt, prev,
                   targets, path, all_rows, seen>>

\* write_text writes the JSON text and closes the file; main() then returns.
SaveWrite ==
    /\ pc = "write"
    /\ file' = [kind |-> "dict_list", keys |-> payload]
    /\ pc' = "done"
    /\ rc' = ExitCode
    /\ UNCHANGED <<call, ret, runNo, csv, args, file0, uploaded_keys, selected, trimmed,
                   idx, successes, failures, keys, status, calls, logins, payload, killedAt,
                   prev, targets, path, all_rows, seen>>

\* The process is terminated from outside.  During save_uploaded_keys that is
\* before write_text opens the file, or between its open() and its write().
Kill ==
    /\ pc \in Running
    /\ pc' = "killed"
    /\ killedAt' = pc
    /\ UNCHANGED <<call, ret, runNo, csv, args, file, file0, uploaded_keys, selected,
                   trimmed, idx, successes, failures, keys, status, calls, logins,
                   payload, rc, prev,
                   targets, path, all_rows, seen>>

\* The next run of main() over the same CSV file and state file.
NextRun ==
    /\ pc \in Ended
    /\ runNo < MaxRuns
    /\ runNo' = runNo + 1
    /\ pc' = "start"
    /\ args' \in Args
    /\ file0' = file
    /\ prev' = [saved |-> (pc = "done" /\ payload # <<>>),
                complete |-> (pc = "done" /\ ~trimmed /\ failures = 0),
                kept |-> (Cardinality(uploaded_keys \ {EmptyKey}) <= STATE_MAX_ENTRIES)]
    /\ FreshRun
    /\ UNCHANGED <<call, ret, csv, file, targets, path, all_rows, seen>>

Next ==
    \/ MainLoad
    \/ EnsureLogin
    \/ UploadStep
    \/ AfterUpload
    \/ SaveOpen
    \/ SaveWrite
    \/ Kill
    \/ NextRun

Spec == Init /\ [][Next]_vars

(***************************************************************************)
(* garmin_weight_uploader2.py: the body-composition uploader.  Its main()  *)
(* logs in, loads every CSV file the patterns matched, in that order, and  *)
(* hands the concatenated rows to upload_rows.                             *)
(***************************************************************************)
MaxFiles == 2       \* CSV files matched by the patterns
MaxFileRows == 1    \* rows of one of these files

\* round(self.weight, 2), in 1/100 kg (ties to even).
Round2(w) ==
    LET q == w \div 100
        r == w % 100
    IN  IF r < 50 THEN q
        ELSE IF r > 50 THEN q + 1
        ELSE IF q % 2 = 0 THEN q ELSE q + 1

\* A BodyRow: ts_iso is the instant to the second, date_str the day
\* ("%m/%d/%Y") and time_str the minute of the day ("%I:%M %p").
BodyRow(d, t, w) == [ts_iso |-> <<d, t>>, date_str |-> d, time_str |-> t \div 60,
                     weight |-> w]

dup_key(row) == <<row.date_str, row.time_str, Round2(row.weight)>>

\* [none |-> the result is None, v |-> the float otherwise].  The cell is
\* empty, "nan", "none" or no number (weight 0 of a raw row), or it is a
\* number, and only the number zero becomes None.
_coerce_float(x) == IF x = 0 THEN [none |-> TRUE, v |-> 0] ELSE [none |-> FALSE, v |-> x]

\* The loop of lines 154-198 over the raw rows: _parse_timestamp comes first
\* and lets the error of dateutil's parser through.
RECURSIVE RowsFrom(_)
RowsFrom(raw) ==
    IF raw = <<>> THEN [raised |-> FALSE, rows |-> <<>>]
    ELSE LET r == raw[1]
             weight == _coerce_float(r.weight)
             rest == RowsFrom(SubSeq(raw, 2, Len(raw)))
         IN  IF r.date = 0 THEN [raised |-> TRUE, rows |-> <<>>]
             ELSE IF rest.raised THEN rest
             ELSE IF weight.none THEN rest
             ELSE [raised |-> FALSE,
                   rows |-> <<BodyRow(r.date, r.time, weight.v)>> \o rest.rows]

\* [raised |-> an exception left the function, rows |-> the returned list]
load_rows_from_csv(f) ==
    IF "date" \notin f.cols \/ "weight" \notin f.cols
    THEN [raised |-> FALSE, rows |-> <<>>]
    ELSE RowsFrom(f.rows)

\* Rows of these CSV files: two valid rows, the later day first, a negative
\* weight, an unparseable date and an empty or zero weight.
CsvRows2 == {Raw(2, 0, 702000), Raw(1, 30, 705004), Raw(1, 0, -50000),
             Raw(0, 0, 705000), Raw(1, 0, 0)}

CsvFiles2 ==
    {CsvFile({"date", "weight"}, rows) : rows \in SeqsUpTo(CsvRows2, MaxFileRows)}
    \cup {CsvFile(cols, <<Raw(1, 0, 705000)>>) : cols \in BrokenHeaders}

Args2 == [dry_run : BOOLEAN, skip_duplicates : BOOLEAN]

\* What api.add_body_composition does: it returns or it raises.
Outcomes2 == {"Returned", "Raised"}

u1Vars == <<call, ret, runNo, csv, file, file0, uploaded_keys, selected, trimmed,
            successes, failures, keys, status, payload, rc, killedAt, prev>>

\* main() up to line 280: the patterns matched at least one file.
Init2 ==
    /\ targets \in SeqsUpTo(CsvFiles2, MaxFiles) \ {<<>>}
    /\ args \in Args2
    /\ pc = "login"
    /\ path = 1
    /\ all_rows = <<>>
    /\ seen = {}
    /\ idx = 1
    /\ calls = <<>>
    /\ logins = 0
    /\ call = NoCall
    /\ ret = <<>>
    /\ runNo = 1
    /\ csv = CsvFile({}, <<>>)
    /\ file = MissingFile
    /\ file0 = MissingFile
    /\ uploaded_keys = {}
    /\ selected = <<>>
    /\ trimmed = FALSE
    /\ successes = 0
    /\ failures = 0
    /\ keys = <<>>
    /\ status = <<>>
    /\ payload = <<>>
    /\ rc = -1
    /\ killedAt = ""
    /\ prev = NoPrev

\* main(), line 282: login() exits the process or lets an exception through
\* when it fails.
Login2 ==
    /\ pc = "login"
    /\ logins' = logins + 1
    /\ \E ok \in BOOLEAN : pc' = IF ok THEN "load" ELSE "aborted"
    /\ UNCHANGED <<u1Vars, args, idx, calls, targets, path, all_rows, seen>>

\* main(), lines 285-287: one iteration of the loop over the files.
LoadFile ==
    /\ pc = "load"
    /\ path <= Len(targets)
    /\ LET rows == load_rows_from_csv(targets[path])
       IN  IF rows.raised
           THEN /\ pc' = "aborted"
                /\ UNCHANGED <<path, all_rows>>
           ELSE /\ all_rows' = all_rows \o rows.rows
                /\ path' = path + 1
                /\ pc' = pc
    /\ UNCHANGED <<u1Vars, args, idx, calls, logins, targets, seen>>

\* main(), lines 289-292: the loop is over, upload_rows starts.
LoadDone ==
    /\ pc = "load"
    /\ path > Len(targets)
    /\ pc' = "rows"
    /\ UNCHANGED <<u1Vars, args, idx, calls, logins, targets, path, all_rows, seen>>

\* upload_rows(), one iteration of the loop of lines 225-256.
UploadRow ==
    /\ pc = "rows"
    /\ idx <= Len(all_rows)
    /\ LET row == all_rows[idx]
           k == dup_key(row)
       IN  IF args.skip_duplicates /\ k \in seen
           THEN UNCHANGED <<seen, calls>>
           ELSE /\ seen' = seen \cup {k}
                /\ IF args.dry_run
                   THEN UNCHANGED calls
                   ELSE \E outcome \in Outcomes2 :
                            calls' = Append(calls, [i |-> idx, record |-> row,
                                                    outcome |-> outcome])
    /\ idx' = idx + 1
    /\ UNCHANGED <<u1Vars, pc, args, logins, targets, path, all_rows>>

\* upload_rows() and main() return.
RowsDone ==
    /\ pc = "rows"
    /\ idx > Len(all_rows)
    /\ pc' = "done"
    /\ UNCHANGED <<u1Vars, args, idx, calls, logins, targets, path, all_rows, seen>>

Next2 == Login2 \/ LoadFile \/ LoadDone \/ UploadRow \/ RowsDone

Spec2 == Init2 /\ [][Next2]_vars

(***************************************************************************)
(* Vocabulary of the properties.                                           *)
(***************************************************************************)
Returned(fn) == pc = "returned" /\ call.fn = fn

\* The j-th smallest element of a set of indices.
NthOf(I, j) == CHOOSE i \in I : Cardinality({m \in I : m <= i}) = j

\* s is the sub-sequence of df at the indices I, in their order.
IsSelection(s, df, I) ==
    /\ Len(s) = Cardinality(I)
    /\ \A j \in 1..Len(s) : s[j] = df[NthOf(I, j)]

KeysOfBatch(df) == {KeyOf(df[i]) : i \in 1..Len(df)}

\* The instant a key string carries, if it carries one.
HasInstant(k) == k[1] # 0

Instant(k) == <<k[1], k[2]>>

\* k is not more recent than j; a key without an instant is older than all.
NotNewer(k, j) == ~HasInstant(k) \/ (HasInstant(j) /\ DtLeq(Instant(k), Instant(j)))

\* The api.add_weigh_in calls made for the i-th candidate.
CallsFor(i) == {j \in 1..Len(calls) : calls[j].i = i}

Attempts(i) == Cardinality(CallsFor(i))

LastOutcome(i) == calls[CHOOSE j \in CallsFor(i) : \A m \in CallsFor(i) : m <= j].outcome

\* The run is past the loop of upload_measurements.
LoopLeft == pc \in {"save", "write", "done"} /\ logins > 0

(***************************************************************************)
(* C1. Original statement: when a run with state tracking uploads every    *)
(* record left by deduplication and the state filter, none failing, and    *)
(* saves the state, the next run over the same file with state tracking    *)
(* finds no candidate and makes no upload attempt.                         *)
(***************************************************************************)
C1_SecondRunUploadsNothing ==
    (runNo > 1 /\ prev.saved /\ prev.complete /\ args.use_state /\ pc # "start")
        => (selected = <<>> /\ calls = <<>>)

\* C1, amended: the same, provided the save of the first run evicted no key,
\* that is, the loaded keys and the uploaded keys together number at most
\* STATE_MAX_ENTRIES.
C1_SecondRunUploadsNothingUnderCap ==
    (runNo > 1 /\ prev.saved /\ prev.complete /\ prev.kept /\ args.use_state
     /\ pc # "start")
        => (selected = <<>> /\ calls = <<>>)

C1_Witness ==
    /\ runNo > 1
    /\ prev.saved /\ prev.complete /\ prev.kept
    /\ args.use_state
    /\ pc = "done"
    /\ Len(deduplicate_measurements(load_weight_rows(csv).df)) > 1
    /\ selected = <<>>

(***************************************************************************)
(* C2. filter_new_entries(B, S) returns exactly the records of B whose key *)
(* is not in S, in their order in B, and the number of records of B whose  *)
(* key is in S.                                                            *)
(***************************************************************************)
C2_FilterCorrect ==
    Returned("filter") =>
        LET df == call.df
            new == {i \in 1..Len(df) : KeyOf(df[i]) \notin call.state}
        IN  /\ IsSelection(ret.records, df, new)
            /\ ret.skipped = Len(df) - Cardinality(new)

C2_Witness ==
    /\ Returned("filter")
    /\ Len(call.df) > 2
    /\ ret.skipped > 1
    /\ ret.records # <<>>

(***************************************************************************)
(* C3. deduplicate_measurements returns one record per distinct key of the *)
(* batch: the first record with that key, the records in input order.      *)
(***************************************************************************)
C3_DedupClosure ==
    Returned("dedup") =>
        LET df == call.df
            first == {i \in 1..Len(df) : \A m \in 1..(i - 1) : KeyOf(df[m]) # KeyOf(df[i])}
        IN  /\ Len(ret) = Cardinality(KeysOfBatch(df))
            /\ \A i, j \in 1..Len(ret) : i # j => KeyOf(ret[i]) # KeyOf(ret[j])
            /\ IsSelection(ret, df, first)

C3_Witness ==
    /\ Returned("dedup")
    /\ Len(call.df) > 2
    /\ Len(ret) = 2
    /\ call.df[1] # call.df[2]
    /\ KeyOf(call.df[1]) = KeyOf(call.df[2])

(***************************************************************************)
(* C4. Statement of the claim: for a collection of more than limit keys    *)
(* prune_state_keys returns exactly limit keys, none of them older than a  *)
(* key it dropped (a key without an instant counting as oldest), in        *)
(* ascending order of instant.                                             *)
(***************************************************************************)
C4_PruneKeepsLimitMostRecent ==
    (Returned("prune") /\ Len(call.keys) > call.limit) =>
        /\ Len(ret) = call.limit
        /\ Range(ret) \subseteq Range(call.keys)
        /\ \A e \in Range(call.keys) \ Range(ret), k \in Range(ret) : NotNewer(e, k)
        /\ \A i, j \in 1..Len(ret) : i < j => NotNewer(ret[i], ret[j])

(***************************************************************************)
(* C5. Statement of the claim: a candidate ends Failed only after a        *)
(* permanent failure or after its attempts are used up, so a candidate     *)
(* whose last attempt failed transiently has been attempted more than      *)
(* once; a candidate ends Succeeded when its call returned.                *)
(***************************************************************************)
C5_TransientFailureIsRetried ==
    ~args.dry_run =>
        \A i \in 1..Len(status) :
            /\ status[i] = "Succeeded" => LastOutcome(i) = "Returned"
            /\ status[i] = "Failed" =>
                  \/ LastOutcome(i) = "PermanentFailure"
                  \/ (LastOutcome(i) = "TransientFailure" /\ Attempts(i) > 1)

C7_DryRunUploadsNothing ==
    args.dry_run =>
        /\ calls = <<>>
        /\ failures = 0
        /\ file = file0
        /\ pc = "upload" => successes = idx - 1
        /\ pc = "done" => successes = Len(selected)

C7_Witness ==
    /\ args.dry_run
    /\ args.use_state
    /\ pc = "done"
    /\ successes > 1
    /\ file.kind = "dict_list"

(***************************************************************************)
(* C8. Statement of the claim: a dry run makes no call to Garmin Connect,  *)
(* neither a login nor an upload.                                          *)
(***************************************************************************)
C8_DryRunContactsNothing ==
    args.dry_run => (logins = 0 /\ calls = <<>>)

(***************************************************************************)
(* C9. Statement of the claim: load_uploaded_keys never raises, and it     *)
(* returns the empty set for a missing file and for a file that is no JSON *)
(* or whose "uploaded_keys" entry is no list.                              *)
(***************************************************************************)
C9_LoadNeverFatal ==
    Returned("load") =>
        /\ ~ret.raised
        /\ call.file.kind \in {"missing", "not_utf8", "notjson", "dict_number",
                               "dict_string", "scalar"}
              => ret.keys = {}

(***************************************************************************)
(* C10. Statement of the claim: when the process is terminated during a    *)
(* save, the state file loads as the key set the run found or as the key   *)
(* set being written.                                                      *)
(***************************************************************************)
C10_SaveIsAtomic ==
    (pc = "killed" /\ killedAt \in {"save", "write"}) =>
        LET found == load_uploaded_keys(file)
        IN  /\ ~found.raised
            /\ \/ found.keys = load_uploaded_keys(file0).keys
               \/ (payload # <<>> /\ found.keys = Range(payload))

(***************************************************************************)
(* C11. Statement of the claim: within one run the records are handed to   *)
(* the uploader oldest first: of any two upload calls of a run the earlier *)
(* one carries an instant that is not later than the later one's, also     *)
(* when several CSV files are processed.                                   *)
(***************************************************************************)
C11_UploadsAreChronological ==
    \A i, j \in 1..Len(calls) :
        i < j => DtLeq(calls[i].record.ts_iso, calls[j].record.ts_iso)

(***************************************************************************)
(* C12. Statement of the claim: every record that reaches an upload call   *)
(* has a weight above zero; a row whose weight is missing, unparseable,    *)
(* zero or negative is dropped by the loader.                              *)
(***************************************************************************)
C12_UploadedWeightsArePositive ==
    /\ \A i \in 1..Len(all_rows) : all_rows[i].weight > 0
    /\ \A j \in 1..Len(calls) : calls[j].record.weight > 0

(***************************************************************************)
(* C13. Statement of the claim: two measurements whose instants fall in    *)
(* the same minute and whose rounded weights are equal get the same key:   *)
(* deduplicate_measurements keeps one of them, and filter_new_entries      *)
(* removes a record when the key of a reading of its minute is in the      *)
(* state.                                                                  *)
(***************************************************************************)
SameMinute(a, b) == a[1] = b[1] /\ a[2] \div 60 = b[2] \div 60 /\ a[3] = b[3]

C13_KeyStableWithinMinute ==
    /\ Returned("dedup") =>
          /\ \A i, j \in 1..Len(call.df) :
                SameMinute(KeyOf(call.df[i]), KeyOf(call.df[j]))
                    => KeyOf(call.df[i]) = KeyOf(call.df[j])
          /\ \A i, j \in 1..Len(ret) :
                i # j => ~SameMinute(KeyOf(ret[i]), KeyOf(ret[j]))
    /\ Returned("filter") =>
          \A i \in 1..Len(ret.records), k \in call.state :
              ~SameMinute(KeyOf(ret.records[i]), k)

(***************************************************************************)
(* C14. Statement of the claim: no row makes the loader raise: loading a   *)
(* file never ends the run, whatever its rows hold, and the rows it        *)
(* contributes are those of its rows that parse.                           *)
(***************************************************************************)
C14_RowErrorsAreNotFatal ==
    [][pc = "load" => pc' # "aborted"]_vars

(***************************************************************************)
(* C15. Statement of the claim: a file that has neither a date nor a       *)
(* datetime column, or no weight column, contributes no records and does   *)
(* not end the run: the run goes on and ends with its summary.             *)
(***************************************************************************)
C15_BrokenFileDoesNotEndRun ==
    (csv.cols \in BrokenHeaders /\ pc # "start") =>
        /\ pc # "aborted"
        /\ selected = <<>>
        /\ calls = <<>>

LoadedKeys == load_uploaded_keys(file0).keys

KeysWith(outcomes) ==
    {KeyOf(calls[j].record) : j \in {m \in 1..Len(calls) : calls[m].outcome \in outcomes}}

\* prune_state_keys had more than STATE_MAX_ENTRIES keys to order.
CapApplied ==
    Cardinality((LoadedKeys \cup KeysWith({"Returned"})) \ {EmptyKey}) > STATE_MAX_ENTRIES

RunOver == args.use_state /\ ~args.dry_run /\ pc \in {"done", "aborted"}

SuccessesOnly ==
    LET now == load_uploaded_keys(file).keys
    IN  /\ now \subseteq LoadedKeys \cup KeysWith({"Returned"})
        /\ now \cap KeysWith(Outcomes \ {"Returned"}) = {}
        /\ KeysWith({"Returned"}) = {} => file = file0

C17_StateTracksSuccessesOnly ==
    RunOver =>
        /\ SuccessesOnly
        /\ \A k \in LoadedKeys \ load_uploaded_keys(file).keys : CapApplied

\* C17, amended: the same, the last part for the loaded keys other than the
\* empty string, which a save always drops.
C17_StateTracksSuccessesOnlyNonEmpty ==
    RunOver =>
        /\ SuccessesOnly
        /\ \A k \in (LoadedKeys \ {EmptyKey}) \ load_uploaded_keys(file).keys : CapApplied

C17_Witness ==
    /\ RunOver
    /\ pc = "done"
    /\ file # file0
    /\ LoadedKeys # {}
    /\ KeysWith({"Returned"}) # {}
    /\ KeysWith(Outcomes \ {"Returned"}) # {}

====
